---------------------------- MODULE Spec2Model ----------------------------
(***************************************************************************)
(* Model of internal/config/config.go: the configuration schema, the       *)
(* two-phase LoadConfigs pipeline (mapstructure decode with json tags,     *)
(* then viper.Unmarshal with mapstructure tags and AutomaticEnv), and the  *)
(* lookup methods GetApp, GetDashBoard, GetRow and GetGraph.  The calls    *)
(* into encoding/json, mapstructure and viper are modelled by what these   *)
(* libraries do with the options LoadConfigs sets.                         *)
(***************************************************************************)
EXTENDS Integers, Sequences, FiniteSets, TLC

VARIABLES
    defaultConf,  \* the []byte argument of LoadConfigs, as its parsed JSON value
    environ,      \* the process environment: variable name |-> value
    pc,           \* "start" before LoadConfigs, "loaded" after, "panic"
    ret,          \* what LoadConfigs returned: [conf, err]
    call,         \* the last lookup call: [op, arg, recv]
    node          \* the pointer the last lookup returned: [kind, ptr]

vars == <<defaultConf, environ, pc, ret, call, node>>

-----------------------------------------------------------------------------
(* JSON values, as encoding/json hands them over in map[string]interface{} *)

Malformed == [t |-> "malformed"]
JNull == [t |-> "null"]
JStr(s) == [t |-> "string", s |-> s]
JBool(b) == [t |-> "bool", b |-> b]
JNum(n) == [t |-> "number", n |-> n]
JArr(a) == [t |-> "array", a |-> a]
JObj(o) == [t |-> "object", o |-> o]

(* Go values: a pointer is Nil or Ptr(pointee), a slice is a sequence.     *)
Nil == << >>
Ptr(x) == <<x>>

-----------------------------------------------------------------------------
(* strings.ToLower / strings.ToUpper on the names that occur as document   *)
(* keys, struct tags and path segments.                                    *)

LowerCase ==
    [Name |-> "name",
     groupKind |-> "groupkind",
     refreshRate |-> "refreshrate",
     providerType |-> "providertype",
     defaultDashboard |-> "defaultdashboard",
     graphType |-> "graphtype",
     metricName |-> "metricname",
     colorSchemes |-> "colorschemes",
     queryExpression |-> "queryexpression",
     yAxisUnit |-> "yaxisunit",
     valueRounding |-> "valuerounding",
     KEY |-> "key",
     NAME |-> "name",
     COLOR |-> "color",
     VALUE |-> "value",
     UNIT |-> "unit",
     QUERY_EXPRESSION |-> "query_expression",
     TITLE |-> "title",
     DESCRIPTION |-> "description",
     GRAPH_TYPE |-> "graph_type",
     METRIC_NAME |-> "metric_name",
     COLOR_SCHEMES |-> "color_schemes",
     THRESHOLDS |-> "thresholds",
     Y_AXIS_UNIT |-> "y_axis_unit",
     VALUE_ROUNDING |-> "value_rounding",
     TAB |-> "tab",
     GRAPHS |-> "graphs",
     GROUP_KIND |-> "group_kind",
     REFRESH_RATE |-> "refresh_rate",
     TABS |-> "tabs",
     ROWS |-> "rows",
     PROVIDER_TYPE |-> "provider_type",
     INTERVALS |-> "intervals",
     DEFAULT |-> "default",
     DEFAULT_DASHBOARD |-> "default_dashboard",
     DASHBOARDS |-> "dashboards",
     ADDRESS |-> "address",
     APPLICATIONS |-> "applications",
     PROVIDER |-> "provider",
     PROMETHEUS |-> "prometheus",
     WAVEFRONT |-> "wavefront"]

Lower(s) == IF s \in DOMAIN LowerCase THEN LowerCase[s] ELSE s

UpperCase ==
    [prometheus |-> "PROMETHEUS",
     wavefront |-> "WAVEFRONT",
     provider |-> "PROVIDER",
     applications |-> "APPLICATIONS",
     name |-> "NAME",
     address |-> "ADDRESS",
     default |-> "DEFAULT"]

Upper(s) == IF s \in DOMAIN UpperCase THEN UpperCase[s] ELSE s

(* strings.EqualFold, which mapstructure uses to match a map key to a tag  *)
EqualFold(a, b) == Lower(a) = Lower(b)

-----------------------------------------------------------------------------
(* The schema: each struct as Go field name |-> json tag, mapstructure tag *)
(* and type.                                                               *)

TString == [k |-> "string"]
TBool == [k |-> "bool"]
TInt == [k |-> "int"]
TStruct(s) == [k |-> "struct", s |-> s]
TPtr(s) == [k |-> "ptr", s |-> s]
TSlice(e) == [k |-> "slice", e |-> e]

F(json, ms, ty) == [json |-> json, ms |-> ms, ty |-> ty]

Threshold ==
    [ Key |-> F("key", "KEY", TString),
       Name |-> F("name", "NAME", TString),
       Color |-> F("color", "COLOR", TString),
       Value |-> F("value", "VALUE", TString),
       Unit |-> F("unit", "UNIT", TString),
       QueryExpression |-> F("queryExpression", "QUERY_EXPRESSION", TString) ]

Graph ==
    [ Name |-> F("name", "NAME", TString),
       Title |-> F("title", "TITLE", TString),
       Description |-> F("description", "DESCRIPTION", TString),
       GraphType |-> F("graphType", "GRAPH_TYPE", TString),
       MetricName |-> F("metricName", "METRIC_NAME", TString),
       ColorSchemes |-> F("colorSchemes", "COLOR_SCHEMES", TSlice(TString)),
       Thresholds |-> F("thresholds", "THRESHOLDS", TSlice(TStruct("Threshold"))),
       QueryExpression |-> F("queryExpression", "QUERY_EXPRESSION", TString),
       YAxisUnit |-> F("yAxisUnit", "Y_AXIS_UNIT", TString),
       ValueRounding |-> F("valueRounding", "VALUE_ROUNDING", TInt) ]

Row ==
    [ Name |-> F("name", "NAME", TString),
       Title |-> F("title", "TITLE", TString),
       Tab |-> F("tab", "TAB", TString),
       Graphs |-> F("graphs", "GRAPHS", TSlice(TPtr("Graph"))) ]

Dashboard ==
    [ Name |-> F("name", "NAME", TString),
       GroupKind |-> F("groupKind", "GROUP_KIND", TString),
       RefreshRate |-> F("refreshRate", "REFRESH_RATE", TString),
       Tabs |-> F("tabs", "TABS", TSlice(TString)),
       Rows |-> F("rows", "ROWS", TSlice(TPtr("Row"))),
       ProviderType |-> F("providerType", "PROVIDER_TYPE", TString),
       Intervals |-> F("intervals", "INTERVALS", TSlice(TString)) ]

Application ==
    [ Name |-> F("name", "NAME", TString),
       Default |-> F("default", "DEFAULT", TBool),
       DefaultDashboard |-> F("defaultDashboard", "DEFAULT_DASHBOARD", TPtr("Dashboard")),
       Dashboards |-> F("dashboards", "DASHBOARDS", TSlice(TPtr("Dashboard"))) ]

\* The TLSConfig field (an external type, opaque to this package) is left out.
provider ==
    [ Name |-> F("name", "NAME", TString),
       Address |-> F("address", "ADDRESS", TString),
       Default |-> F("default", "DEFAULT", TBool) ]

MetricsConfigProvider ==
    [ Applications |-> F("applications", "APPLICATIONS", TSlice(TStruct("Application"))),
       Provider |-> F("provider", "PROVIDER", TStruct("provider")) ]

O11yConfig ==
    [ Prometheus |-> F("prometheus", "PROMETHEUS", TPtr("MetricsConfigProvider")),
       Wavefront |-> F("wavefront", "WAVEFRONT", TPtr("MetricsConfigProvider")) ]

Fields(s) ==
    CASE s = "Threshold" -> Threshold
      [] s = "Graph" -> Graph
      [] s = "Row" -> Row
      [] s = "Dashboard" -> Dashboard
      [] s = "Application" -> Application
      [] s = "provider" -> provider
      [] s = "MetricsConfigProvider" -> MetricsConfigProvider
      [] s = "O11yConfig" -> O11yConfig

FieldNames(s) == DOMAIN Fields(s)
Field(s, n) == Fields(s)[n]

(* The zero value of a Go type *)
RECURSIVE Zero(_)
Zero(ty) ==
    CASE ty.k = "string" -> ""
      [] ty.k = "bool" -> FALSE
      [] ty.k = "int" -> 0
      [] ty.k = "ptr" -> Nil
      [] ty.k = "slice" -> << >>
      [] ty.k = "struct" -> [n \in FieldNames(ty.s) |-> Zero(Field(ty.s, n).ty)]


-----------------------------------------------------------------------------
(* mapstructure.Decoder.Decode, as configured by a DecoderConfig c:        *)
(* c.tag is TagName ("json" in phase 1, "mapstructure" in viper.Unmarshal) *)
(* and c.weak is WeaklyTypedInput (false in phase 1, true in viper).       *)
(* ZeroFields is false in both: the decode writes onto the value cur that  *)
(* the target already holds and leaves alone what the input does not name. *)

JSONTags == [tag |-> "json", weak |-> FALSE]
MapstructureTags == [tag |-> "mapstructure", weak |-> TRUE]

TagOf(f, c) == IF c.tag = "json" THEN f.json ELSE f.ms

\* strconv.ParseBool
ParseBool(s) ==
    CASE s \in {"1", "t", "T", "TRUE", "true", "True"} -> [val |-> TRUE, err |-> FALSE]
      [] s \in {"0", "f", "F", "FALSE", "false", "False"} -> [val |-> FALSE, err |-> FALSE]
      [] OTHER -> [val |-> FALSE, err |-> TRUE]

\* strconv.ParseInt on the strings of the model
ParseInt(s) ==
    CASE s = "0" -> [val |-> 0, err |-> FALSE]
      [] s = "1" -> [val |-> 1, err |-> FALSE]
      [] OTHER -> [val |-> 0, err |-> TRUE]

\* decodeString
DecodeString(data, cur, c) ==
    CASE data.t = "string" -> [val |-> data.s, err |-> FALSE]
      [] data.t = "bool" /\ c.weak ->
            [val |-> IF data.b THEN "1" ELSE "0", err |-> FALSE]
      [] data.t = "number" /\ c.weak -> [val |-> ToString(data.n), err |-> FALSE]
      [] OTHER -> [val |-> cur, err |-> TRUE]

\* decodeBool
DecodeBool(data, cur, c) ==
    CASE data.t = "bool" -> [val |-> data.b, err |-> FALSE]
      [] data.t = "number" /\ c.weak -> [val |-> data.n # 0, err |-> FALSE]
      [] data.t = "string" /\ c.weak ->
            IF ~ParseBool(data.s).err THEN ParseBool(data.s)
            ELSE IF data.s = "" THEN [val |-> FALSE, err |-> FALSE]
            ELSE [val |-> cur, err |-> TRUE]
      [] OTHER -> [val |-> cur, err |-> TRUE]

\* decodeInt
DecodeInt(data, cur, c) ==
    CASE data.t = "number" -> [val |-> data.n, err |-> FALSE]
      [] data.t = "bool" /\ c.weak ->
            [val |-> IF data.b THEN 1 ELSE 0, err |-> FALSE]
      [] data.t = "string" /\ c.weak ->
            IF data.s = "" THEN [val |-> 0, err |-> FALSE]
            ELSE IF ~ParseInt(data.s).err THEN ParseInt(data.s)
            ELSE [val |-> cur, err |-> TRUE]
      [] OTHER -> [val |-> cur, err |-> TRUE]

\* decodeStructFromMap's key search: the tag itself, else a key equal to it
\* under strings.EqualFold.
MatchKeys(keys, tag) ==
    IF tag \in keys THEN {tag} ELSE {k \in keys : EqualFold(k, tag)}

RECURSIVE Decode(_, _, _, _)
\* decodeStruct: the fields are decoded one after the other, each in place;
\* a field whose tag matches no key is left alone; the errors of the fields
\* are collected and the remaining fields are still decoded.
RECURSIVE DecodeFields(_, _, _, _, _)
DecodeFields(s, todo, obj, acc, c) ==
    IF todo = {} THEN acc
    ELSE LET n == CHOOSE x \in todo : TRUE
             f == Field(s, n)
             ks == MatchKeys(DOMAIN obj, TagOf(f, c))
             r == IF ks = {} THEN [val |-> acc.val[n], err |-> FALSE]
                  ELSE Decode(f.ty, obj[CHOOSE k \in ks : TRUE], acc.val[n], c)
         IN  DecodeFields(s, todo \ {n}, obj,
                          [val |-> [acc.val EXCEPT ![n] = r.val],
                           err |-> acc.err \/ r.err], c)

DecodeStruct(s, obj, cur, c) ==
    DecodeFields(s, FieldNames(s), obj, [val |-> cur, err |-> FALSE], c)

\* decodePtr as it would be with a pointee allocated on every decode, onto
\* which nothing of the old pointee is carried over
DecodePtr_Fresh(s, data, cur, c) ==
    LET r == Decode(TStruct(s), data, Zero(TStruct(s)), c)
    IN  IF r.err /\ cur = Nil THEN [val |-> Nil, err |-> TRUE]
        ELSE [val |-> Ptr(r.val), err |-> r.err]

\* decodePtr: a nil pointer gets a fresh pointee, which is stored only when
\* its decode succeeds; a non-nil pointer's pointee is decoded in place.
DecodePtr(s, data, cur, c) ==
    LET r == Decode(TStruct(s), data, IF cur = Nil THEN Zero(TStruct(s)) ELSE cur[1], c)
    IN  IF r.err /\ cur = Nil THEN [val |-> Nil, err |-> TRUE]
        ELSE [val |-> Ptr(r.val), err |-> r.err]

\* decodeSlice over the elements of arr from index i on, reusing the
\* elements cur holds; acc is the slice built so far
RECURSIVE DecodeElems(_, _, _, _, _, _)
DecodeElems(e, arr, i, cur, acc, c) ==
    IF i > Len(arr) THEN acc
    ELSE LET r == Decode(e, arr[i], IF i <= Len(cur) THEN cur[i] ELSE Zero(e), c)
         IN  DecodeElems(e, arr, i + 1, cur,
                         [val |-> Append(acc.val, r.val), err |-> acc.err \/ r.err], c)

\* decodeSlice: with WeaklyTypedInput, an empty map gives an empty slice and
\* any other non-array input is decoded as a one-element array.
DecodeSlice(e, data, cur, c) ==
    CASE data.t = "array" ->
            DecodeElems(e, data.a, 1, cur, [val |-> << >>, err |-> FALSE], c)
      [] data.t # "array" /\ ~c.weak -> [val |-> cur, err |-> TRUE]
      [] data.t = "object" /\ c.weak /\ DOMAIN data.o = {} ->
            [val |-> << >>, err |-> FALSE]
      [] OTHER -> DecodeElems(e, <<data>>, 1, cur, [val |-> << >>, err |-> FALSE], c)

\* decode: nil input sets nothing; otherwise dispatch on the target's kind
Decode(ty, data, cur, c) ==
    IF data.t = "null" THEN [val |-> cur, err |-> FALSE]
    ELSE CASE ty.k = "string" -> DecodeString(data, cur, c)
           [] ty.k = "bool" -> DecodeBool(data, cur, c)
           [] ty.k = "int" -> DecodeInt(data, cur, c)
           [] ty.k = "struct" ->
                IF data.t = "object" THEN DecodeStruct(ty.s, data.o, cur, c)
                ELSE [val |-> cur, err |-> TRUE]
           [] ty.k = "ptr" -> DecodePtr(ty.s, data, cur, c)
           [] ty.k = "slice" -> DecodeSlice(ty.e, data, cur, c)

-----------------------------------------------------------------------------
(* viper: ReadConfig, AutomaticEnv with the "." -> "__" key replacer, and  *)
(* Unmarshal.  An environment variable name is modelled by its segments:   *)
(* <<"PROMETHEUS", "PROVIDER", "ADDRESS">> is PROMETHEUS__PROVIDER__ADDRESS *)

\* insensitiviseMap: viper lower-cases every key of the parsed document,
\* also below arrays; a key that is not lower case replaces its lower-case twin
RECURSIVE Insensitivise(_)
RECURSIVE InsensitiviseMap(_, _, _)
RECURSIVE InsensitiviseArray(_, _, _)
InsensitiviseMap(o, todo, acc) ==
    IF todo = {} THEN acc
    ELSE LET l == CHOOSE x \in todo : TRUE
             k == IF \E x \in DOMAIN o : x # l /\ Lower(x) = l
                  THEN CHOOSE x \in DOMAIN o : x # l /\ Lower(x) = l
                  ELSE l
         IN  InsensitiviseMap(o, todo \ {l}, (l :> Insensitivise(o[k])) @@ acc)

InsensitiviseArray(a, i, acc) ==
    IF i > Len(a) THEN acc
    ELSE InsensitiviseArray(a, i + 1, Append(acc, Insensitivise(a[i])))

Insensitivise(v) ==
    CASE v.t = "object" ->
            JObj(InsensitiviseMap(v.o, {Lower(k) : k \in DOMAIN v.o}, << >>))
      [] v.t = "array" -> JArr(InsensitiviseArray(v.a, 1, << >>))
      [] OTHER -> v

\* the variable name as it would be with the backend segment fixed, so that
\* one variable addresses the same field of every backend
EnvName_IgnoresBackend(path) ==
    [i \in 1..Len(path) |-> IF i = 1 THEN "PROMETHEUS" ELSE Upper(path[i])]

\* the environment variable AutomaticEnv looks up for a key path
EnvName(path) == [i \in 1..Len(path) |-> Upper(path[i])]

\* getEnv: an empty value counts as unset (AllowEmptyEnv is off)
EnvSet(env, path) == EnvName(path) \in DOMAIN env /\ env[EnvName(path)] # ""

\* viper.Get as it would be with the document's value taking precedence
Get_DocumentFirst(env, path, leaf) ==
    IF leaf.t # "null" THEN leaf
    ELSE IF EnvSet(env, path) THEN JStr(env[EnvName(path)]) ELSE leaf

\* viper.Get on a leaf key of the configuration: the environment first,
\* then the value read from the document.  (Variables named after an inner
\* path, which would shadow the keys below it, are not among EnvNames.)
Get(env, path, leaf) ==
    IF EnvSet(env, path) THEN JStr(env[EnvName(path)]) ELSE leaf

\* viper.AllSettings: the nested map rebuilt from AllKeys (the leaf keys of
\* the document that was read), each with its Get value; nil values are
\* skipped, and so are maps without any leaf.
RECURSIVE AllSettings(_, _, _, _, _)
AllSettings(env, path, o, todo, acc) ==
    IF todo = {} THEN acc
    ELSE LET k == CHOOSE x \in todo : TRUE
             p == Append(path, k)
             sub == IF o[k].t = "object"
                    THEN JObj(AllSettings(env, p, o[k].o, DOMAIN o[k].o, << >>))
                    ELSE Get(env, p, o[k])
             keep == IF o[k].t = "object" THEN DOMAIN sub.o # {}
                     ELSE sub.t # "null"
         IN  AllSettings(env, path, o, todo \ {k},
                         IF keep THEN (k :> sub) @@ acc ELSE acc)

\* viper.Unmarshal(&conf): decode AllSettings onto conf, mapstructure tags,
\* weakly typed
Unmarshal(env, config, conf) ==
    Decode(TStruct("O11yConfig"),
           JObj(AllSettings(env, << >>, config.o, DOMAIN config.o, << >>)), conf,
           MapstructureTags)

-----------------------------------------------------------------------------
(* LoadConfigs *)

\* Step 1: json.Unmarshal into a map, then decode with json tags
DecodeJSON(bytes) ==
    Decode(TStruct("O11yConfig"), bytes, Zero(TStruct("O11yConfig")), JSONTags)

\* LoadConfigs: step 1, then viper.ReadConfig and viper.Unmarshal onto the
\* same conf; every return hands back conf as it stands.  viper.ReadConfig
\* parses the bytes step 1 has parsed already, so it does not fail here.
LoadConfigs(bytes, env) ==
    IF bytes.t # "object"
    THEN [conf |-> Zero(TStruct("O11yConfig")), err |-> TRUE]
    ELSE LET r1 == DecodeJSON(bytes)
         IN  IF r1.err THEN [conf |-> r1.val, err |-> TRUE]
             ELSE LET r2 == Unmarshal(env, Insensitivise(bytes), r1.val)
                  IN  [conf |-> r2.val, err |-> r2.err]

-----------------------------------------------------------------------------
(* The lookup methods.  Each returns [panic, ptr]: panic is the run-time   *)
(* failure of dereferencing a nil pointer, ptr the pointer returned.       *)

Returns(p) == [panic |-> FALSE, ptr |-> p]
NilDeref == [panic |-> TRUE, ptr |-> Nil]

\* for _, graph := range r.Graphs { if graph.Name == name { return graph } }
RECURSIVE RangeGraphs(_, _, _)
RangeGraphs(graphs, i, name) ==
    IF i > Len(graphs) THEN Returns(Nil)
    ELSE IF graphs[i] = Nil THEN NilDeref
    ELSE IF graphs[i][1].Name = name THEN Returns(graphs[i])
    ELSE RangeGraphs(graphs, i + 1, name)

GetGraph(r, name) ==
    IF r = Nil THEN NilDeref ELSE RangeGraphs(r[1].Graphs, 1, name)

\* for _, row := range d.Rows { if row.Name == name { return row } }
RECURSIVE RangeRows(_, _, _)
RangeRows(rows, i, name) ==
    IF i > Len(rows) THEN Returns(Nil)
    ELSE IF rows[i] = Nil THEN NilDeref
    ELSE IF rows[i][1].Name = name THEN Returns(rows[i])
    ELSE RangeRows(rows, i + 1, name)

GetRow(d, name) ==
    IF d = Nil THEN NilDeref ELSE RangeRows(d[1].Rows, 1, name)

\* for _, dash := range a.Dashboards { if dash.GroupKind == groupKind { return dash } }
RECURSIVE RangeDashboards(_, _, _, _)
RangeDashboards(dashboards, i, groupKind, fallback) ==
    IF i > Len(dashboards) THEN Returns(fallback)
    ELSE IF dashboards[i] = Nil THEN NilDeref
    ELSE IF dashboards[i][1].GroupKind = groupKind THEN Returns(dashboards[i])
    ELSE RangeDashboards(dashboards, i + 1, groupKind, fallback)

\* value receiver: calling it through a nil *Application dereferences nil
GetDashBoard(a, groupKind) ==
    IF a = Nil THEN NilDeref
    ELSE RangeDashboards(a[1].Dashboards, 1, groupKind, a[1].DefaultDashboard)

\* the scan as it would be if a default-flagged application ended it
RECURSIVE RangeApplications_DefaultShortCircuits(_, _, _, _)
RangeApplications_DefaultShortCircuits(apps, i, name, defaultApp) ==
    IF i > Len(apps) THEN Returns(Ptr(defaultApp))
    ELSE IF apps[i].Name = name \/ apps[i].Default THEN Returns(Ptr(apps[i]))
    ELSE RangeApplications_DefaultShortCircuits(apps, i + 1, name, defaultApp)

\* the scan as it would be if the first default-flagged application were kept
RECURSIVE RangeApplications_FirstDefault(_, _, _, _)
RangeApplications_FirstDefault(apps, i, name, defaultApp) ==
    IF i > Len(apps) THEN Returns(Ptr(defaultApp))
    ELSE IF apps[i].Name = name THEN Returns(Ptr(apps[i]))
    ELSE RangeApplications_FirstDefault(apps, i + 1, name,
            IF apps[i].Default /\ ~defaultApp.Default THEN apps[i] ELSE defaultApp)

\* for _, app := range p.Applications { ...; if app.Default { defaultApp = app } }
RECURSIVE RangeApplications(_, _, _, _)
RangeApplications(apps, i, name, defaultApp) ==
    IF i > Len(apps) THEN Returns(Ptr(defaultApp))
    ELSE IF apps[i].Name = name THEN Returns(Ptr(apps[i]))
    ELSE RangeApplications(apps, i + 1, name,
                           IF apps[i].Default THEN apps[i] ELSE defaultApp)

GetApp(p, name) ==
    IF p = Nil THEN NilDeref
    ELSE RangeApplications(p[1].Applications, 1, name, Zero(TStruct("Application")))

-----------------------------------------------------------------------------
(* Bounds and inputs *)

MaxApps == 3      \* applications in a provider's list
MaxList == 2      \* entries in a dashboards, rows or graphs list
MaxEnvVars == 1   \* environment variables set before the load

SeqsUpTo(S, n) == UNION {[1..k -> S] : k \in 0..n}

AppNames == {"demo-app-ai-ops", "default"}
GroupKinds == {"deployment", "pod"}
RowNames == {"httplatency", "httperrortate"}
GraphNames == {"http_200_latency", "http_error_rate_500"}
Missing == "non-existent"

\* document fragments, shaped like the test document
GraphDoc(name, title) ==
    JObj([name |-> JStr(name), title |-> JStr(title), graphType |-> JStr("line"),
          metricName |-> JStr("pod_template_hash"), valueRounding |-> JNum(1)])

RowDoc(name, title, graphs) ==
    JObj([name |-> JStr(name), title |-> JStr(title), tab |-> JStr("GoldenSignal"),
          graphs |-> JArr(graphs)])

DashboardDoc(groupKind, name, rows) ==
    JObj([groupKind |-> JStr(groupKind), name |-> JStr(name),
          tabs |-> JArr(<<JStr("GoldenSignal")>>), rows |-> JArr(rows),
          intervals |-> JArr(<<JStr("1h"), JStr("24h")>>)])

AppDoc(name, default, dashboards) ==
    JObj([name |-> JStr(name), dashboards |-> JArr(dashboards)]
         @@ (IF default THEN [default |-> JBool(TRUE)] ELSE << >>))

ProviderDoc ==
    JObj([Name |-> JStr("default"), default |-> JBool(TRUE),
          address |-> JStr("http://prometheus-service:8080")])

RootDoc(apps, prov) ==
    JObj([prometheus |-> JObj([applications |-> JArr(apps), provider |-> prov])])

OneGraph == <<GraphDoc("http_200_latency", "Latency")>>
OneRow == <<RowDoc("httplatency", "HTTP Latency", OneGraph)>>
OneDashboard == <<DashboardDoc("deployment", "", OneRow)>>
TwoApps == <<AppDoc("demo-app-ai-ops", FALSE, OneDashboard),
             AppDoc("default", TRUE, <<DashboardDoc("pod", "", << >>)>>)>>

\* documents that vary the application list
AppListDocs ==
    {RootDoc(apps, ProviderDoc) :
        apps \in SeqsUpTo({AppDoc(n, d, << >>) : n \in AppNames, d \in BOOLEAN}, MaxApps)}

\* documents that vary one application's dashboards and fallback dashboard
DashboardListDocs ==
    LET items == {JNull} \cup {DashboardDoc(k, n, << >>) :
                                  k \in GroupKinds, n \in {"first", "second"}}
        fallbacks == {<< >>, [defaultDashboard |-> DashboardDoc("fallback", "", << >>)]}
    IN  {RootDoc(<<JObj([name |-> JStr("demo-app-ai-ops"), dashboards |-> JArr(ds)] @@ fb)>>,
                 ProviderDoc) :
            ds \in SeqsUpTo(items, MaxList), fb \in fallbacks}

\* documents that vary one dashboard's rows
RowListDocs ==
    LET items == {JNull} \cup {RowDoc(n, t, << >>) :
                                  n \in RowNames, t \in {"first", "second"}}
    IN  {RootDoc(<<AppDoc("demo-app-ai-ops", FALSE, <<DashboardDoc("deployment", "", rs)>>)>>,
                 ProviderDoc) :
            rs \in SeqsUpTo(items, MaxList)}

\* documents that vary one row's graphs
GraphListDocs ==
    LET items == {JNull} \cup {GraphDoc(n, t) :
                                  n \in GraphNames, t \in {"first", "second"}}
    IN  {RootDoc(<<AppDoc("demo-app-ai-ops", FALSE,
                          <<DashboardDoc("deployment", "",
                                         <<RowDoc("httplatency", "HTTP Latency", gs)>>)>>)>>,
                 ProviderDoc) :
            gs \in SeqsUpTo(items, MaxList)}

\* documents that vary the provider descriptor: each scalar field is absent,
\* null or given ("name" also under the test document's spelling "Name")
ProviderDocs ==
    LET names == {<< >>, [name |-> JNull], [name |-> JStr("default")],
                  [Name |-> JStr("default")]}
        addresses == {<< >>, [address |-> JNull],
                      [address |-> JStr("http://prometheus-service:8080")]}
        defaults == {<< >>, [default |-> JNull], [default |-> JBool(TRUE)],
                     [default |-> JBool(FALSE)]}
    IN  {RootDoc(TwoApps, JObj(n @@ a @@ d)) :
            n \in names, a \in addresses, d \in defaults}

\* documents with another top-level shape: no backend, both backends, a
\* backend without provider descriptor
ShapeDocs ==
    {JObj(<< >>),
     JObj([prometheus |-> JObj([applications |-> JArr(TwoApps)])]),
     JObj([prometheus |-> JObj([applications |-> JArr(TwoApps), provider |-> ProviderDoc]),
           wavefront |-> JObj([applications |-> JArr(<< >>), provider |-> ProviderDoc])])}

\* input that fails to load: bytes that are no JSON object, and documents
\* whose values have the wrong type for the schema
BadDocs ==
    {Malformed,
     JObj([prometheus |-> JStr("invalid")]),
     JObj([prometheus |-> JObj([provider |-> JObj([name |-> JStr("default"),
                                                   default |-> JStr("yes")])])]),
     JObj([prometheus |-> JObj([applications |-> JArr(TwoApps), provider |-> ProviderDoc]),
           wavefront |-> JStr("invalid")])}

Documents ==
    AppListDocs \cup DashboardListDocs \cup RowListDocs \cup GraphListDocs
    \cup ProviderDocs \cup ShapeDocs \cup BadDocs

\* the environment variables of the provider descriptor's scalar fields
EnvNames ==
    {<<"PROMETHEUS", "PROVIDER", f>> : f \in {"NAME", "ADDRESS", "DEFAULT"}}
EnvValues == {"", "env-override", "false"}


-----------------------------------------------------------------------------
(* The state machine *)

NoCall == [op |-> "none", arg |-> "", recv |-> Nil]
NoNode == [kind |-> "none", ptr |-> Nil]

Init ==
    /\ defaultConf \in Documents
    /\ environ = << >>
    /\ pc = "start"
    /\ ret = [conf |-> Zero(TStruct("O11yConfig")), err |-> FALSE]
    /\ call = NoCall
    /\ node = NoNode

\* os.Setenv / t.Setenv before the load
Setenv(k, v) ==
    /\ pc = "start"
    /\ k \notin DOMAIN environ
    /\ Cardinality(DOMAIN environ) < MaxEnvVars
    /\ environ' = (k :> v) @@ environ
    /\ UNCHANGED <<defaultConf, pc, ret, call, node>>

\* config, err := LoadConfigs(logger, defaultConf)
Load ==
    /\ pc = "start"
    /\ ret' = LoadConfigs(defaultConf, environ)
    /\ pc' = "loaded"
    /\ UNCHANGED <<defaultConf, environ, call, node>>

\* a lookup call op(arg) on receiver recv, with result r, made by a caller
\* that holds a configuration loaded without error
Lookup(op, arg, recv, r, kind) ==
    /\ call' = [op |-> op, arg |-> arg, recv |-> recv]
    /\ node' = IF r.panic THEN NoNode ELSE [kind |-> kind, ptr |-> r.ptr]
    /\ pc' = IF r.panic THEN "panic" ELSE pc
    /\ UNCHANGED <<defaultConf, environ, ret>>

\* config.Prometheus.GetApp(name), config.Wavefront.GetApp(name)
CallGetApp(backend, name) ==
    /\ pc = "loaded" /\ ~ret.err
    /\ Lookup("GetApp", name, ret.conf[backend],
              GetApp(ret.conf[backend], name), "Application")

\* app.GetDashBoard(groupKind) on the result of GetApp
CallGetDashBoard(groupKind) ==
    /\ pc = "loaded" /\ node.kind = "Application"
    /\ Lookup("GetDashBoard", groupKind, node.ptr,
              GetDashBoard(node.ptr, groupKind), "Dashboard")

\* dashboard.GetRow(name) on the result of GetDashBoard
CallGetRow(name) ==
    /\ pc = "loaded" /\ node.kind = "Dashboard"
    /\ Lookup("GetRow", name, node.ptr, GetRow(node.ptr, name), "Row")

\* row.GetGraph(name) on the result of GetRow
CallGetGraph(name) ==
    /\ pc = "loaded" /\ node.kind = "Row"
    /\ Lookup("GetGraph", name, node.ptr, GetGraph(node.ptr, name), "Graph")

Next ==
    \/ \E k \in EnvNames, v \in EnvValues : Setenv(k, v)
    \/ Load
    \/ \E b \in {"Prometheus", "Wavefront"}, n \in AppNames \cup {Missing} : CallGetApp(b, n)
    \/ \E k \in GroupKinds \cup {Missing} : CallGetDashBoard(k)
    \/ \E n \in RowNames \cup {Missing} : CallGetRow(n)
    \/ \E n \in GraphNames \cup {Missing} : CallGetGraph(n)

Spec == Init /\ [][Next]_vars

-----------------------------------------------------------------------------
(* Vocabulary of the properties *)

Min(S) == CHOOSE x \in S : \A y \in S : x <= y
Max(S) == CHOOSE x \in S : \A y \in S : x >= y

Loaded == pc = "loaded" /\ call = NoCall
LoadedOK == Loaded /\ ~ret.err

ZeroApplication ==
    [Name |-> "", Default |-> FALSE, DefaultDashboard |-> Nil, Dashboards |-> << >>]
ZeroConfig == [Prometheus |-> Nil, Wavefront |-> Nil]

\* the receiver's list at the last call, and the indices of its entries that
\* carry the name asked for
RecvApplications == call.recv[1].Applications
NamedApps == {i \in 1..Len(RecvApplications) : RecvApplications[i].Name = call.arg}
DefaultApps == {i \in 1..Len(RecvApplications) : RecvApplications[i].Default}

RecvDashboards == call.recv[1].Dashboards
KindDashboards ==
    {i \in 1..Len(RecvDashboards) :
        RecvDashboards[i] # Nil /\ RecvDashboards[i][1].GroupKind = call.arg}

Children == IF call.op = "GetRow" THEN call.recv[1].Rows ELSE call.recv[1].Graphs
NamedChildren ==
    {i \in 1..Len(Children) : Children[i] # Nil /\ Children[i][1].Name = call.arg}

\* the provider descriptor's scalar fields, the environment variable of each
\* and what the document says about each
ScalarFields == {"Name", "Address", "Default"}
EnvVar(f) ==
    <<"PROMETHEUS", "PROVIDER",
      CASE f = "Name" -> "NAME" [] f = "Address" -> "ADDRESS" [] f = "Default" -> "DEFAULT">>
FieldOf(k) == CHOOSE f \in ScalarFields : EnvVar(f) = k
Coerced(f, v) ==
    IF f = "Default" THEN v \in {"1", "t", "T", "TRUE", "true", "True"} ELSE v

ProviderObject ==
    LET has(v, k) == v.t = "object" /\ k \in DOMAIN v.o
    IN  IF /\ has(defaultConf, "prometheus")
           /\ has(defaultConf.o.prometheus, "provider")
           /\ defaultConf.o.prometheus.o.provider.t = "object"
        THEN defaultConf.o.prometheus.o.provider.o
        ELSE << >>
DocumentName(f) ==
    CASE f = "Name" -> "name" [] f = "Address" -> "address" [] f = "Default" -> "default"
DocumentGives(f) ==
    \E k \in DOMAIN ProviderObject :
        k \in {DocumentName(f), f} /\ ProviderObject[k].t # "null"

Resolved(f) == ret.conf.Prometheus[1].Provider[f]

\* conf with what the variable k addresses put back to its value in base
Except(conf, k, base) ==
    IF conf.Prometheus = Nil \/ base.Prometheus = Nil THEN conf
    ELSE [conf EXCEPT !.Prometheus[1].Provider[FieldOf(k)] =
                          base.Prometheus[1].Provider[FieldOf(k)]]
Without(env, k) == [n \in DOMAIN env \ {k} |-> env[n]]

-----------------------------------------------------------------------------
(* Properties *)

\* C1: GetApp(name) on a provider whose list holds an application of that
\* name returns the first such application in list order, whatever the
\* default flags of the applications around it.
C1_GetAppExactMatch ==
    (call.op = "GetApp" /\ call.recv # Nil /\ NamedApps # {})
        => pc # "panic" /\ node.ptr = Ptr(RecvApplications[Min(NamedApps)])

\* C1 witness: an exact match that comes after a default-flagged application
\* and before another application of the same name.
C1_Witness ==
    /\ call.op = "GetApp" /\ call.recv # Nil /\ Cardinality(NamedApps) > 1
    /\ \E i \in DefaultApps : i < Min(NamedApps)
    /\ RecvApplications[Min(NamedApps)] # RecvApplications[Max(NamedApps)]
    /\ node.ptr = Ptr(RecvApplications[Min(NamedApps)])

\* C2: GetApp(name) on a provider without an application of that name
\* returns the last default-flagged application of the list, and the
\* zero-valued Application when none is flagged; it never returns nil.
C2_GetAppDefault ==
    (call.op = "GetApp" /\ call.recv # Nil /\ NamedApps = {})
        => /\ pc # "panic"
           /\ node.ptr # Nil
           /\ node.ptr[1] = IF DefaultApps = {} THEN ZeroApplication
                            ELSE RecvApplications[Max(DefaultApps)]

\* C2 witness: no application of the name, two different default-flagged
\* applications, and the later one returned.
C2_Witness ==
    /\ call.op = "GetApp" /\ call.recv # Nil /\ NamedApps = {}
    /\ Cardinality(DefaultApps) > 1
    /\ RecvApplications[Min(DefaultApps)] # RecvApplications[Max(DefaultApps)]
    /\ node.ptr = Ptr(RecvApplications[Max(DefaultApps)])

\* C3 as claimed: when the document gives a provider scalar field a value and
\* the field's environment variable is set, a successful load holds the
\* coerced environment value in the field.
C3_EnvWins ==
    LoadedOK => \A f \in ScalarFields :
        (DocumentGives(f) /\ EnvVar(f) \in DOMAIN environ)
            => Resolved(f) = Coerced(f, environ[EnvVar(f)])

\* C3 amended: the same, for a variable set to a value that is not empty.
C3_NonEmptyEnvWins ==
    LoadedOK => \A f \in ScalarFields :
        (DocumentGives(f) /\ EnvVar(f) \in DOMAIN environ /\ environ[EnvVar(f)] # "")
            => Resolved(f) = Coerced(f, environ[EnvVar(f)])

\* C3 witness: a document value replaced by a different environment value.
C3_Witness ==
    /\ LoadedOK
    /\ \E f \in ScalarFields :
          /\ DocumentGives(f)
          /\ EnvVar(f) \in DOMAIN environ /\ environ[EnvVar(f)] # ""
          /\ Resolved(f) = Coerced(f, environ[EnvVar(f)])
          /\ Resolved(f) # DecodeJSON(defaultConf).val.Prometheus[1].Provider[f]

\* C4: an environment variable that matches a leaf field's override path
\* changes that field only: every other field of the returned config equals
\* what the same document gives with the variable unset.
C4_OverrideChangesOneField ==
    Loaded => \A k \in DOMAIN environ :
        LET base == LoadConfigs(defaultConf, Without(environ, k)).conf
        IN  Except(ret.conf, k, base) = base

\* C4 witness: a variable that did change its field, in a config with
\* applications and dashboards next to it.
C4_Witness ==
    /\ LoadedOK
    /\ \E k \in DOMAIN environ :
          /\ ret.conf # LoadConfigs(defaultConf, Without(environ, k)).conf
          /\ Len(ret.conf.Prometheus[1].Applications) > 1
          /\ ret.conf.Prometheus[1].Applications[1].Dashboards # << >>

\* C5: whenever LoadConfigs returns an error, the config returned with it is
\* the zero value.
C5_ErrorReturnsZeroConfig ==
    (Loaded /\ ret.err) => ret.conf = ZeroConfig

\* C6 as claimed: without environment variables, the override-name decode of
\* the document yields the same config as the document-name decode, and that
\* config is what LoadConfigs returns.
C6_PhasesIdentical ==
    (LoadedOK /\ DOMAIN environ = {})
        => /\ Unmarshal(environ, Insensitivise(defaultConf), ZeroConfig).val
                = DecodeJSON(defaultConf).val
           /\ ret.conf = DecodeJSON(defaultConf).val

\* C6 amended: without environment variables, the override-name decode, which
\* writes onto the config the document-name decode produced, leaves that
\* config as it is: LoadConfigs returns exactly the document-decoded config.
C6_LoadReturnsDocumentDecode ==
    (LoadedOK /\ DOMAIN environ = {}) => ret.conf = DecodeJSON(defaultConf).val

\* C6 witness: a returned config that holds multi-word fields of the document
\* (groupKind, graphType, metricName).
C6_Witness ==
    /\ LoadedOK /\ DOMAIN environ = {}
    /\ ret.conf.Prometheus # Nil
    /\ \E i \in 1..Len(ret.conf.Prometheus[1].Applications) :
          LET ds == ret.conf.Prometheus[1].Applications[i].Dashboards
          IN  /\ ds # << >> /\ ds[1] # Nil
              /\ ds[1][1].GroupKind = "deployment"
              /\ ds[1][1].Rows # << >> /\ ds[1][1].Rows[1] # Nil
              /\ ds[1][1].Rows[1][1].Graphs # << >>
              /\ ds[1][1].Rows[1][1].Graphs[1] # Nil
              /\ ds[1][1].Rows[1][1].Graphs[1][1].MetricName = "pod_template_hash"
              /\ ds[1][1].Rows[1][1].Graphs[1][1].GraphType = "line"

\* C7: GetDashBoard(groupKind) on an Application returns the first dashboard
\* of the list with that group kind, and the fallback dashboard when there is
\* none; so it returns nil exactly when none matches and no fallback is set.
C7_GetDashBoardFirstMatch ==
    (call.op = "GetDashBoard" /\ call.recv # Nil)
        => /\ pc # "panic"
           /\ node.ptr = IF KindDashboards = {} THEN call.recv[1].DefaultDashboard
                         ELSE RecvDashboards[Min(KindDashboards)]

\* C8: GetRow(name) on a Dashboard and GetGraph(name) on a Row return the
\* first entry of the list with that name, and nil exactly when the list has
\* no entry of that name.
C8_GetRowGetGraphFirstMatch ==
    (call.op \in {"GetRow", "GetGraph"} /\ call.recv # Nil)
        => /\ pc # "panic"
           /\ node.ptr = IF NamedChildren = {} THEN Nil
                         ELSE Children[Min(NamedChildren)]

\* C9: no lookup applied to a node of a loaded tree, or to the result of a
\* preceding lookup, ends in a panic.
C9_LookupsNeverPanic ==
    pc = "panic" => (call.op = "GetApp" /\ call.recv = Nil)

\* C10: when the document gives a provider scalar field no value, a
\* successful load holds the coerced value of the field's environment
\* variable in the field, and the field's zero value without the variable.
C10_EnvFillsMissingField ==
    LoadedOK /\ ret.conf.Prometheus # Nil => \A f \in ScalarFields :
        ~DocumentGives(f)
            => Resolved(f) = IF EnvVar(f) \in DOMAIN environ
                             THEN Coerced(f, environ[EnvVar(f)])
                             ELSE Coerced(f, "")

=============================================================================
